---- MODULE Spec2Model ----
(***************************************************************************)
(* A model of the AccountKit SDK client (src/src/client.ts): the facade    *)
(* AccountKit, the BaseClient it builds twice (v1, v2), the logging        *)
(* interceptors and the Logger (src/src/utils/logger.ts), and the eleven   *)
(* endpoint methods.  The HTTP transport (axios) is the environment: it    *)
(* merges the instance defaults with the per-call configuration, runs the  *)
(* interceptors around the dispatch, and later delivers one outcome for    *)
(* every request it was handed.  A call is followed through the points at  *)
(* which its promise chain yields: the method's synchronous part, the      *)
(* request interceptor, the arrival of the outcome with the response       *)
(* interceptor, and the resumption of get/post that settles the call.      *)
(*                                                                         *)
(* JavaScript values are modelled as follows.  A string is a string; an    *)
(* object is a function from its keys (an absent key is not in DOMAIN);    *)
(* an optional value that must be stored in a record of fixed shape is a   *)
(* sequence of length 0 (undefined) or 1.                                  *)
(***************************************************************************)
EXTENDS Naturals, Sequences, FiniteSets, TLC

VARIABLES
    status,      \* "none" before construction, "ok" after; "error" = constructor threw
    facade,      \* <<>> or <<[config, v1, v2]>>: the AccountKit instance
    build,       \* which Logger of utils/logger.ts is compiled in: "json" | "inspect"
    env,         \* process.env: a function from variable names to values
    namespaces,  \* the pattern the debug library has enabled, <<>> if none
    calls,       \* sequence of the method calls made so far
    events       \* sequence of the events the debug library has written

vars == <<status, facade, build, env, namespaces, calls, events>>

(***************************************************************************)
(* Bounds of the model.                                                    *)
(***************************************************************************)
MaxCalls == 1
\* The calls made on one facade while earlier ones are still in flight.
MaxInFlight == 2

(***************************************************************************)
(* Optional values and objects.                                            *)
(***************************************************************************)
None == <<>>
Some(x) == <<x>>
Has(obj, key) == key \in DOMAIN obj

\* { ...a, ...b }: the keys of both, b's value where both have the key.
Spread(a, b) ==
    [k \in (DOMAIN a) \cup (DOMAIN b) |-> IF k \in DOMAIN b THEN b[k] ELSE a[k]]

EmptyObj == [k \in {} |-> ""]
Values(obj) == {obj[k] : k \in DOMAIN obj}

\* JavaScript truthiness of a string and of a number.
TruthyStr(s) == s # ""
TruthyNum(n) == n # 0

(***************************************************************************)
(* Program constants.                                                      *)
(***************************************************************************)
ProdUrl == "https://api.collab.land"
QaUrl == "https://api-qa.collab.land"
DefaultTimeout == 60000
Mask == "********"
EnvPROD == "PROD"
EnvQA == "QA"

HContentType == "Content-Type"
HApiKey == "X-API-KEY"
HBotToken == "X-TG-BOT-TOKEN"
HAccessToken == "X-ACCESS-TOKEN"
JsonContentType == "application/json"

(***************************************************************************)
(* The inputs of a construction.                                           *)
(***************************************************************************)
ApiKeys == {"api-key-1"}
\* The enum's two values and one value outside it (a cast or a JS caller).
Environments == {EnvPROD, EnvQA, "STAGING"}
BaseUrls == {"", "https://custom.example"}
Timeouts == {0, 15000}
ExtraHeaderSets ==
    { EmptyObj,
      [h \in {"X-Custom-Header"} |-> "secret-1"],
      [h \in {HApiKey} |-> "api-key-2"],
      [h \in {HAccessToken} |-> "cfg-token"],
      [h \in {HBotToken} |-> "cfg-token"],
      [h \in {HContentType} |-> "application/x-www-form-urlencoded"] }

\* Omit<ClientConfig, 'apiKey' | 'environment'>: baseUrl, timeout, debug, headers.
\* The option objects over the fields above: each field absent or one of its values.
WithField(S, f, V) == S \cup { Spread(o, [k \in {f} |-> v]) : o \in S, v \in V }
AllOptions ==
    WithField(WithField(WithField(WithField({EmptyObj},
        "baseUrl", BaseUrls), "timeout", Timeouts), "debug", BOOLEAN),
        "headers", ExtraHeaderSets)

\* process.env before the debug library is loaded, DEBUG aside.
ProcessEnvs == { EmptyObj, [k \in {"SECRET"} |-> "tok-1"] }
\* A namespace or pattern of the debug library is the sequence of its
\* colon-separated parts: 'accountkit:*' is <<"accountkit", "*">>.
\* What DEBUG may hold when the library is loaded: nothing, every accountkit
\* logger, or the trace logger alone.
InitialNamespaces == { <<>>, <<"accountkit", "*">>, <<"accountkit", "trace">> }
Builds == {"json", "inspect"}

(***************************************************************************)
(* BaseClient.constructor                                                  *)
(***************************************************************************)
\* A slip in the order of the tests: the environment decides before the override.
ResolveBaseUrl_EnvironmentFirst(config) ==
    IF config.environment = EnvPROD THEN ProdUrl
    ELSE IF Has(config, "baseUrl") /\ TruthyStr(config.baseUrl) THEN config.baseUrl
    ELSE QaUrl

\* if (config.baseUrl) ... else environment === PROD ? prod : qa
ResolveBaseUrl(config) ==
    IF Has(config, "baseUrl") /\ TruthyStr(config.baseUrl)
    THEN config.baseUrl
    ELSE IF config.environment = EnvPROD THEN ProdUrl ELSE QaUrl

\* timeout: config.timeout || 60000
ResolveTimeout(config) ==
    IF Has(config, "timeout") /\ TruthyNum(config.timeout)
    THEN config.timeout
    ELSE DefaultTimeout

\* config.headers ?? {}
ConfigHeaders(config) == IF Has(config, "headers") THEN config.headers ELSE EmptyObj

\* A slip in the spread order: { ...config.headers, 'Content-Type': ..., 'X-API-KEY': ... }
DefaultHeaders_ExtrasFirst(config) ==
    Spread(ConfigHeaders(config),
           [h \in {HContentType, HApiKey} |->
               IF h = HContentType THEN JsonContentType ELSE config.apiKey])

\* The built-in defaults alone: config.headers is not spread in.
DefaultHeaders_NoExtras(config) ==
    [h \in {HContentType, HApiKey} |->
        IF h = HContentType THEN JsonContentType ELSE config.apiKey]

\* headers: { 'Content-Type': 'application/json', 'X-API-KEY': apiKey, ...config.headers }
DefaultHeaders(config) ==
    Spread([h \in {HContentType, HApiKey} |->
               IF h = HContentType THEN JsonContentType ELSE config.apiKey],
           ConfigHeaders(config))

\* new Logger('accountkit', config.debug || false): the enabled flag
LoggerEnabled(config) == Has(config, "debug") /\ config.debug

\* The fields of a BaseClient after its constructor; transport is the axios
\* instance (axios.create's argument), id tells the two instances apart.
NewBaseClient(config, id) ==
    [ apiKey |-> config.apiKey,
      baseUrl |-> ResolveBaseUrl(config),
      config |-> config,
      loggerEnabled |-> LoggerEnabled(config),
      transport |-> [ id |-> id,
                      baseURL |-> ResolveBaseUrl(config),
                      timeout |-> ResolveTimeout(config),
                      headers |-> DefaultHeaders(config) ] ]

(***************************************************************************)
(* The debug library as the Logger uses it.                                *)
(***************************************************************************)
\* The text of a namespace: its parts joined by ':'.
RECURSIVE NamespaceText(_)
NamespaceText(ns) ==
    IF Len(ns) = 1 THEN ns[1] ELSE ns[1] \o ":" \o NamespaceText(Tail(ns))

\* The namespace BaseClient gives its Logger.
LoggerNamespace == <<"accountkit">>
\* debug(`${namespace}:trace`), debug(`${namespace}:error`)
LoggerName(namespace, level) == Append(namespace, level)

\* The library's test of a logger's name against the enabled pattern: the
\* parts are equal one by one, and a final '*' stands for any rest.
RECURSIVE Matches(_, _)
Matches(pattern, name) ==
    IF pattern = <<>> THEN name = <<>>
    ELSE IF pattern = <<"*">> THEN name # <<>>
    ELSE /\ name # <<>>
         /\ Head(pattern) = Head(name)
         /\ Matches(Tail(pattern), Tail(name))
Enabled(ns, name) == ns # <<>> /\ Matches(ns, name)

\* process.env once the library has loaded DEBUG as its enabled pattern.
LoadedEnv(base, ns) ==
    IF ns = <<>> THEN base ELSE Spread(base, [k \in {"DEBUG"} |-> NamespaceText(ns)])

\* Logger.constructor: if (enabled) debug.enable(`${namespace}:*`).  enable
\* replaces the pattern enabled before, for the whole process ...
DebugAfterLogger(ns, namespace, enabled) ==
    IF enabled THEN Append(namespace, "*") ELSE ns
\* ... and stores its argument in process.env.DEBUG.
EnvAfterLogger(e, namespace, enabled) ==
    IF enabled
    THEN Spread(e, [k \in {"DEBUG"} |-> NamespaceText(Append(namespace, "*"))])
    ELSE e

(***************************************************************************)
(* AccountKit.constructor                                                  *)
(***************************************************************************)
\* const config = { apiKey, environment, ...options }
FacadeConfig(apiKey, environment, options) ==
    Spread([k \in {"apiKey", "environment"} |->
               IF k = "apiKey" THEN apiKey ELSE environment],
           options)

\* One transport passed to both clients instead of one created by each.
NewAccountKit_SharedTransport(apiKey, environment, options) ==
    [ config |-> FacadeConfig(apiKey, environment, options),
      v1 |-> NewBaseClient(FacadeConfig(apiKey, environment, options), "v1"),
      v2 |-> NewBaseClient(FacadeConfig(apiKey, environment, options), "v1") ]

NewAccountKit(apiKey, environment, options) ==
    [ config |-> FacadeConfig(apiKey, environment, options),
      v1 |-> NewBaseClient(FacadeConfig(apiKey, environment, options), "v1"),
      v2 |-> NewBaseClient(FacadeConfig(apiKey, environment, options), "v2") ]

\* new AccountKit(apiKey, environment, options): no path of either
\* constructor throws, so status becomes "ok" for every input.
Construct(apiKey, environment, options) ==
    /\ status = "none"
    /\ facade' = Some(NewAccountKit(apiKey, environment, options))
    /\ namespaces' = DebugAfterLogger(namespaces, LoggerNamespace,
                                      LoggerEnabled(FacadeConfig(apiKey, environment, options)))
    /\ env' = EnvAfterLogger(env, LoggerNamespace,
                            LoggerEnabled(FacadeConfig(apiKey, environment, options)))
    /\ status' = "ok"
    /\ UNCHANGED <<build, calls, events>>

(***************************************************************************)
(* The arguments of the endpoint methods.                                  *)
(***************************************************************************)
Tokens == {"tok-1"}
\* The bot tokens of the first V1 method: a second one, equal to no other value.
BotTokens == Tokens \cup {"tok-2"}
Platforms == {"twitter", "github"}
Networks == {"SOL_DEVNET"}
ChainIds == {8453}
UserIds == {"44196397"}
Signatures == {"sig-1"}
SerializedTxs == {"AQID"}
UserOpHashes == {"0xhash"}
ActionIpfsSet == {"QmAction"}
\* SubmitEvmUserOpRequest and PlatformSubmitUserOperationsRequest
UserOps == { [target |-> "0xabc", callData |-> "0x", value |-> "0"] }
PlatformUserOps == { [userOps |-> <<op>>] : op \in UserOps }
\* MintWowTokenRequest (metadata kept as one value)
TokenDatas == { [name |-> "Wow", symbol |-> "WOW", metadata |-> "meta", recipient |-> "0xabc"] }
\* actionJsParams: Record<string, any>.  A value is tagged with its JavaScript
\* type: JSON.stringify throws a TypeError on a bigint.
ActionJsParamsSet ==
    { [amount |-> [type |-> "string", v |-> "10"]],
      [amount |-> [type |-> "bigint", v |-> "10"]] }

(***************************************************************************)
(* BaseClient.get / post / put / delete: the request each hands to the     *)
(* transport.  A request is [verb, path, data, config]; data and config    *)
(* are optional.  What they return is formatResponse, below.  A path is    *)
(* the sequence of its segments: '/accountkit/v1/telegrambot/accounts' is  *)
(* <<"accountkit", "v1", "telegrambot", "accounts">>.                      *)
(***************************************************************************)
get(path, config) == [verb |-> "get", path |-> path, data |-> None, config |-> config]
post(path, data, config) == [verb |-> "post", path |-> path, data |-> Some(data), config |-> config]
put(path, data, config) == [verb |-> "put", path |-> path, data |-> Some(data), config |-> config]
delete(path, config) == [verb |-> "delete", path |-> path, data |-> None, config |-> config]

(***************************************************************************)
(* AccountKitV1Client: each method is the call it makes on BaseClient.     *)
(***************************************************************************)
Headers1(name, value) == [h \in {name} |-> value]
RequestConfig(headers, params) == Some([headers |-> headers, params |-> params])

\* The token passed as a query parameter beside the header.
telegramBotGetSmartAccounts_TokenInQuery(botToken) ==
    get(<<"accountkit", "v1", "telegrambot", "accounts">>,
        RequestConfig(Headers1(HBotToken, botToken), [botToken |-> botToken]))

telegramBotGetSmartAccounts(botToken) ==
    get(<<"accountkit", "v1", "telegrambot", "accounts">>,
        Some([headers |-> Headers1(HBotToken, botToken)]))

\* The network sent in the body beside the transaction, with no query.
telegramBotSubmitSolanaTransaction_NetworkInBody(botToken, serializedTransactionBase64, network) ==
    post(<<"accountkit", "v1", "telegrambot", "solana", "submitTransaction">>,
         [serializedTransactionBase64 |-> serializedTransactionBase64, network |-> network],
         Some([headers |-> Headers1(HBotToken, botToken)]))

telegramBotSubmitSolanaTransaction(botToken, serializedTransactionBase64, network) ==
    post(<<"accountkit", "v1", "telegrambot", "solana", "submitTransaction">>,
         [serializedTransactionBase64 |-> serializedTransactionBase64],
         RequestConfig(Headers1(HBotToken, botToken), [network |-> network]))

telegramBotGetSolanaTransactionResponse(botToken, signature, network) ==
    get(<<"accountkit", "v1", "telegrambot", "solana", "transactionResponse">>,
        RequestConfig(Headers1(HBotToken, botToken),
                               [network |-> network, txSignatureBase64 |-> signature]))

\* The V2 body shape used by the V1 method: the operation wrapped in {userOps: [...]}.
telegramBotSubmitEvmUserOperation_Batched(botToken, userOp, chainId) ==
    post(<<"accountkit", "v1", "telegrambot", "evm", "submitUserOperation">>,
         [userOps |-> <<userOp>>],
         RequestConfig(Headers1(HBotToken, botToken), [chainId |-> chainId]))

telegramBotSubmitEvmUserOperation(botToken, userOp, chainId) ==
    post(<<"accountkit", "v1", "telegrambot", "evm", "submitUserOperation">>,
         userOp,
         RequestConfig(Headers1(HBotToken, botToken), [chainId |-> chainId]))

\* The path without the telegrambot segment.
telegramBotGetEvmUserOperationReceipt_NoBotSegment(botToken, userOpHash, chainId) ==
    get(<<"accountkit", "v1", "evm", "userOperationReceipt">>,
        RequestConfig(Headers1(HBotToken, botToken),
                               [chainId |-> chainId, userOperationHash |-> userOpHash]))

telegramBotGetEvmUserOperationReceipt(botToken, userOpHash, chainId) ==
    get(<<"accountkit", "v1", "telegrambot", "evm", "userOperationReceipt">>,
        RequestConfig(Headers1(HBotToken, botToken),
                               [chainId |-> chainId, userOperationHash |-> userOpHash]))

\* The chain id sent in the body, with no query.
executeLitAction_ChainIdInBody(botToken, actionIpfs, actionJsParams, chainId) ==
    post(<<"accountkit", "v1", "telegrambot", "executeActionUsingPKP">>,
         [actionIpfs |-> actionIpfs, actionJsParams |-> actionJsParams, chainId |-> chainId],
         Some([headers |-> Headers1(HBotToken, botToken)]))

executeLitAction(botToken, actionIpfs, actionJsParams, chainId) ==
    post(<<"accountkit", "v1", "telegrambot", "executeActionUsingPKP">>,
         [actionIpfs |-> actionIpfs, actionJsParams |-> actionJsParams],
         RequestConfig(Headers1(HBotToken, botToken), [chainId |-> chainId]))

\* A copy of a V2 method's header block: the token goes out as X-ACCESS-TOKEN.
mintWowToken_AccessTokenHeader(botToken, tokenData, chainId) ==
    post(<<"accountkit", "v1", "telegrambot", "wow", "mint">>,
         tokenData,
         RequestConfig(Headers1(HAccessToken, botToken), [chainId |-> chainId]))

mintWowToken(botToken, tokenData, chainId) ==
    post(<<"accountkit", "v1", "telegrambot", "wow", "mint">>,
         tokenData,
         RequestConfig(Headers1(HBotToken, botToken), [chainId |-> chainId]))

(***************************************************************************)
(* AccountKitV2Client                                                      *)
(***************************************************************************)
\* The method without its headers block: only the query parameter is passed.
getSmartAccountDetails_NoToken(platform, accessToken) ==
    get(<<"accountkit", "v2", "platform", "accounts">>,
        Some([params |-> [platform |-> platform]]))

getSmartAccountDetails(platform, accessToken) ==
    get(<<"accountkit", "v2", "platform", "accounts">>,
        RequestConfig(Headers1(HAccessToken, accessToken), [platform |-> platform]))

\* The platform sent as a query parameter, as the other V2 methods send it.
calculateAccountAddress_PlatformAsQuery(platform, userId) ==
    post(<<"accountkit", "v2", "evm", "calculateAccountAddress">>,
         [userId |-> userId],
         Some([params |-> [platform |-> platform]]))

\* this.post(path, {platform, userId}): no third argument
calculateAccountAddress(platform, userId) ==
    post(<<"accountkit", "v2", "evm", "calculateAccountAddress">>,
         [platform |-> platform, userId |-> userId],
         None)

submitEvmUserOperation(platform, accessToken, userOp, chainId) ==
    post(<<"accountkit", "v2", "platform", "evm", "submitUserOperation">>,
         userOp,
         RequestConfig(Headers1(HAccessToken, accessToken),
                               [chainId |-> chainId, platform |-> platform]))

\* The platform sent as an X-PLATFORM header instead of a query parameter.
submitSolanaTransaction_PlatformHeader(platform, accessToken, network, serializedTransactionBase64) ==
    post(<<"accountkit", "v2", "platform", "solana", "submitTransaction">>,
         [serializedTransactionBase64 |-> serializedTransactionBase64],
         RequestConfig([h \in {HAccessToken, "X-PLATFORM"} |->
                           IF h = HAccessToken THEN accessToken ELSE platform],
                       [network |-> network]))

submitSolanaTransaction(platform, accessToken, network, serializedTransactionBase64) ==
    post(<<"accountkit", "v2", "platform", "solana", "submitTransaction">>,
         [serializedTransactionBase64 |-> serializedTransactionBase64],
         RequestConfig(Headers1(HAccessToken, accessToken),
                               [platform |-> platform, network |-> network]))

\* Every invocation the model makes: the client it is made on, the method's
\* name, the arguments it is called with, and the request the method passes
\* to get/post.
V1Invocations ==
    { [client |-> "v1", method |-> "telegramBotGetSmartAccounts",
       args |-> [botToken |-> t],
       request |-> telegramBotGetSmartAccounts(t)] : t \in BotTokens }
    \cup { [client |-> "v1", method |-> "telegramBotSubmitSolanaTransaction",
            args |-> [botToken |-> t, serializedTransactionBase64 |-> x, network |-> n],
            request |-> telegramBotSubmitSolanaTransaction(t, x, n)] :
            t \in Tokens, x \in SerializedTxs, n \in Networks }
    \cup { [client |-> "v1", method |-> "telegramBotGetSolanaTransactionResponse",
            args |-> [botToken |-> t, signature |-> g, network |-> n],
            request |-> telegramBotGetSolanaTransactionResponse(t, g, n)] :
            t \in Tokens, g \in Signatures, n \in Networks }
    \cup { [client |-> "v1", method |-> "telegramBotSubmitEvmUserOperation",
            args |-> [botToken |-> t, userOp |-> u, chainId |-> c],
            request |-> telegramBotSubmitEvmUserOperation(t, u, c)] :
            t \in Tokens, u \in UserOps, c \in ChainIds }
    \cup { [client |-> "v1", method |-> "telegramBotGetEvmUserOperationReceipt",
            args |-> [botToken |-> t, userOpHash |-> h, chainId |-> c],
            request |-> telegramBotGetEvmUserOperationReceipt(t, h, c)] :
            t \in Tokens, h \in UserOpHashes, c \in ChainIds }
    \cup { [client |-> "v1", method |-> "executeLitAction",
            args |-> [botToken |-> t, actionIpfs |-> a, actionJsParams |-> p, chainId |-> c],
            request |-> executeLitAction(t, a, p, c)] :
            t \in Tokens, a \in ActionIpfsSet, p \in ActionJsParamsSet, c \in ChainIds }
    \cup { [client |-> "v1", method |-> "mintWowToken",
            args |-> [botToken |-> t, tokenData |-> d, chainId |-> c],
            request |-> mintWowToken(t, d, c)] :
            t \in Tokens, d \in TokenDatas, c \in ChainIds }

V2Invocations ==
    { [client |-> "v2", method |-> "getSmartAccountDetails",
       args |-> [platform |-> p, accessToken |-> t],
       request |-> getSmartAccountDetails(p, t)] : p \in Platforms, t \in Tokens }
    \cup { [client |-> "v2", method |-> "calculateAccountAddress",
            args |-> [platform |-> p, userId |-> u],
            request |-> calculateAccountAddress(p, u)] : p \in Platforms, u \in UserIds }
    \cup { [client |-> "v2", method |-> "submitEvmUserOperation",
            args |-> [platform |-> p, accessToken |-> t, userOp |-> u, chainId |-> c],
            request |-> submitEvmUserOperation(p, t, u, c)] :
            p \in Platforms, t \in Tokens, u \in PlatformUserOps, c \in ChainIds }
    \cup { [client |-> "v2", method |-> "submitSolanaTransaction",
            args |-> [platform |-> p, accessToken |-> t, network |-> n,
                      serializedTransactionBase64 |-> x],
            request |-> submitSolanaTransaction(p, t, n, x)] :
            p \in Platforms, t \in Tokens, n \in Networks, x \in SerializedTxs }

\* get, post, put and delete are public: a caller may use them directly.
\* put and delete are used by no endpoint method; both clients inherit them
\* from BaseClient, so one client is taken for each.
DirectInvocations ==
    { [client |-> c, method |-> "put",
       args |-> [data |-> [name |-> "x"]],
       request |-> put(<<"accountkit", "custom">>, [name |-> "x"], None)] : c \in {"v1"} }
    \cup { [client |-> c, method |-> "delete",
            args |-> EmptyObj,
            request |-> delete(<<"accountkit", "custom">>, None)] : c \in {"v2"} }

V1Methods == { inv.method : inv \in V1Invocations }
V2Methods == { inv.method : inv \in V2Invocations }

Invocations == V1Invocations \cup V2Invocations \cup DirectInvocations

(***************************************************************************)
(* Logger (utils/logger.ts) and the debug library.                         *)
(***************************************************************************)
\* Whether a logged body holds a value JSON.stringify throws on.  Of the
\* request types only actionJsParams (Record<string, any>) can hold one.
ContainsBigInt(body) ==
    /\ Has(body, "actionJsParams")
    /\ \E k \in DOMAIN body.actionJsParams : body.actionJsParams[k].type = "bigint"

\* logger(message, data ? JSON.stringify(data, this.safeStringify) : ''):
\* the argument is evaluated whether or not the namespace is enabled.  The
\* replacer returns every value unchanged, so a bigint makes stringify throw;
\* the other Logger of the file formats with util.inspect, which does not.
LoggerThrows(b, body) == b = "json" /\ ContainsBigInt(body)

\* debug(namespace)(...): writes only while the namespace is enabled.
Emit(on, log, event) == IF on THEN Append(log, event) ELSE log

SerializeError ==
    [ name |-> "TypeError", isAxiosError |-> FALSE, code |-> "",
      message |-> "Do not know how to serialize a BigInt", response |-> None ]

(***************************************************************************)
(* BaseClient.redactSensitiveHeaders and the interceptors                  *)
(***************************************************************************)
\* [...Object.values(process.env), ...Object.values(this.config.headers ?? {})]
SensitiveValues(client, envValues) == envValues \cup Values(ConfigHeaders(client.config))

\* Redaction that forgets the configured extra headers.
redactSensitiveHeaders_EnvOnly(client, envValues, headers) ==
    [ k \in DOMAIN headers |-> IF headers[k] \in envValues THEN Mask ELSE headers[k] ]

\* Redaction by header name: the three credential headers, whatever they hold.
redactSensitiveHeaders_ByName(client, envValues, headers) ==
    [ k \in DOMAIN headers |->
        IF k \in {HApiKey, HBotToken, HAccessToken} THEN Mask ELSE headers[k] ]

redactSensitiveHeaders(client, envValues, headers) ==
    [ k \in DOMAIN headers |->
        IF headers[k] \in SensitiveValues(client, envValues) THEN Mask ELSE headers[k] ]

\* The request interceptor's fulfilled handler: what it logs and what it returns.
OnRequestFulfilled(client, envValues, request) ==
    [ logged |-> [ method |-> request.method, url |-> request.url,
                   headers |-> redactSensitiveHeaders(client, envValues, request.headers),
                   data |-> request.data ],
      returned |-> request ]

\* AxiosError.toJSON(): message, name, code, status (the config is left out here)
ErrorToJSON(error) ==
    [ message |-> error.message, name |-> error.name, code |-> error.code,
      status |-> IF error.response = None THEN None ELSE Some(error.response[1].status) ]

\* Handlers that reject with something other than the error they received:
\* a fresh Error carrying only the message; the error with a placeholder
\* response of status 0; the error's JSON form.
OnRejected_NewError(error) ==
    [ logged |-> IF error.isAxiosError THEN ErrorToJSON(error) ELSE error,
      rejected |-> [ name |-> "Error", isAxiosError |-> FALSE, code |-> "",
                     message |-> error.message, response |-> None ] ]

OnRejected_StatusZero(error) ==
    [ logged |-> IF error.isAxiosError THEN ErrorToJSON(error) ELSE error,
      rejected |-> IF error.response = None
                   THEN [error EXCEPT !.response =
                            Some([data |-> EmptyObj, status |-> 0, headers |-> EmptyObj])]
                   ELSE error ]

OnRejected_CodeLost(error) ==
    [ logged |-> IF error.isAxiosError THEN ErrorToJSON(error) ELSE error,
      rejected |-> [error EXCEPT !.code = ""] ]

\* The rejected handlers of both interceptors: what is logged, and the value
\* Promise.reject is called with.
OnRejected(error) ==
    [ logged |-> IF error.isAxiosError THEN ErrorToJSON(error) ELSE error,
      rejected |-> error ]

\* The response interceptor's fulfilled handler.
OnResponseFulfilled(response) ==
    [ logged |-> [ status |-> response.status, headers |-> response.headers,
                   data |-> response.data ],
      returned |-> response ]

\* The whole transport response stored under data.
formatResponse_Nested(response) ==
    [ data |-> response, status |-> response.status, headers |-> response.headers ]

\* BaseClient.formatResponse
formatResponse(response) ==
    [ data |-> response.data, status |-> response.status, headers |-> response.headers ]

(***************************************************************************)
(* The transport (axios), as BaseClient uses it.                           *)
(***************************************************************************)
\* A merge in which the instance defaults win over the per-call headers.
AxiosMerge_DefaultsWin(transport, req) ==
    [ method |-> req.verb,
      baseURL |-> transport.baseURL,
      url |-> req.path,
      timeout |-> transport.timeout,
      headers |-> IF req.config # None /\ Has(req.config[1], "headers")
                  THEN Spread(req.config[1].headers, transport.headers)
                  ELSE transport.headers,
      params |-> IF req.config # None /\ Has(req.config[1], "params")
                 THEN req.config[1].params
                 ELSE EmptyObj,
      data |-> req.data,
      instance |-> transport.id ]

\* instance.get(path, config) / instance.post(path, data, config): the request
\* configuration the interceptors see, instance defaults under per-call values.
\* Header names are merged as written.  The headers the transport adds of its
\* own (Accept, User-Agent, Content-Length) are left out: no code of the
\* client sets or reads them.
AxiosMerge(transport, req) ==
    [ method |-> req.verb,
      baseURL |-> transport.baseURL,
      url |-> req.path,
      timeout |-> transport.timeout,
      headers |-> IF req.config # None /\ Has(req.config[1], "headers")
                  THEN Spread(transport.headers, req.config[1].headers)
                  ELSE transport.headers,
      params |-> IF req.config # None /\ Has(req.config[1], "params")
                 THEN req.config[1].params
                 ELSE EmptyObj,
      data |-> req.data,
      instance |-> transport.id ]

\* What the remote service may answer, and the ways a request may fail.
ResponseBodies == { [pkpAddress |-> "0xC170"], [error |-> "User not found"] }
ResponseStatuses == {200, 404}
ResponseHeaderSets == { [h \in {"content-type"} |-> "application/json"] }
\* The success answer has the address body, the not-found answer the error body.
Responses ==
    { r \in { [data |-> d, status |-> st, headers |-> h] :
                d \in ResponseBodies, st \in ResponseStatuses, h \in ResponseHeaderSets } :
        r.status = 404 <=> Has(r.data, "error") }

\* validateStatus of the transport: 2xx resolves, any other status rejects.
SuccessStatus(st) == st >= 200 /\ st < 300

HttpError(response) ==
    [ name |-> "AxiosError", isAxiosError |-> TRUE, code |-> "ERR_BAD_REQUEST",
      message |-> "Request failed with status code", response |-> Some(response) ]
NetworkError ==
    [ name |-> "AxiosError", isAxiosError |-> TRUE, code |-> "ERR_NETWORK",
      message |-> "Network Error", response |-> None ]
TimeoutError ==
    [ name |-> "AxiosError", isAxiosError |-> TRUE, code |-> "ECONNABORTED",
      message |-> "timeout exceeded", response |-> None ]
SetupError ==
    [ name |-> "AxiosError", isAxiosError |-> TRUE, code |-> "ERR_INVALID_URL",
      message |-> "Invalid URL", response |-> None ]

\* The JSON body serialisation of the transport throws on the same values as
\* JSON.stringify; a body sent with another Content-Type is encoded otherwise.
TransportCannotSerialize(wire) ==
    /\ wire.data # None
    /\ ContainsBigInt(wire.data[1])
    /\ Has(wire.headers, HContentType)
    /\ wire.headers[HContentType] = JsonContentType

\* An outcome is a response that resolves, or an error that rejects.
Resolves(response) == [ok |-> TRUE, response |-> Some(response), error |-> None]
Rejects(error) == [ok |-> FALSE, response |-> None, error |-> Some(error)]

TransportOutcomes(wire) ==
    IF TransportCannotSerialize(wire)
    THEN { Rejects(SerializeError) }
    ELSE { Resolves(r) : r \in {x \in Responses : SuccessStatus(x.status)} }
         \cup { Rejects(HttpError(r)) : r \in {x \in Responses : ~SuccessStatus(x.status)} }
         \cup { Rejects(NetworkError), Rejects(TimeoutError), Rejects(SetupError) }

(***************************************************************************)
(* Construction alone, over every option object.                           *)
(***************************************************************************)
InitConfig ==
    /\ status = "none"
    /\ facade = None
    /\ build \in Builds
    /\ \E b \in ProcessEnvs, ns \in InitialNamespaces :
          /\ namespaces = ns
          /\ env = LoadedEnv(b, ns)
    /\ calls = <<>>
    /\ events = <<>>

NextConfig ==
    \E k \in ApiKeys, e \in Environments, o \in AllOptions : Construct(k, e, o)

SpecConfig == InitConfig /\ [][NextConfig]_vars

(***************************************************************************)
(* A method call, from the method to the settlement of its promise.        *)
(***************************************************************************)
\* A call record.  attempts counts the times get/post handed the request to
\* the transport instance (this.client.get/post/put/delete).  args are the
\* method's arguments; request is what the method passed to get/post; merged
\* is the configuration the transport made of it; wire is the request handed
\* to the transport's dispatch (absent until then); outcome is what the
\* transport delivered; reply is what the awaited this.client.get/post has
\* settled with; at is the point the promise chain has reached ("request":
\* the request interceptor is next; "failed": it threw; "dispatched";
\* "settling": get/post is about to resume; "settled"); state is "inflight",
\* "resolved" or "rejected".
NewCall(inv, merged) ==
    [ client |-> inv.client, method |-> inv.method, args |-> inv.args,
      request |-> inv.request, merged |-> merged,
      wire |-> None, outcome |-> None, reply |-> None, attempts |-> 1,
      at |-> "request", state |-> "inflight", value |-> None, error |-> None ]

Event(id, type, payload) == [call |-> id, type |-> type, payload |-> payload]

\* What the promise chain rejects with after a rejected handler has logged:
\* the handler's own rejection, unless serialising the logged value threw.
RejectionAfterLog(b, error) ==
    IF LoggerThrows(b, OnRejected(error).logged) THEN SerializeError
    ELSE OnRejected(error).rejected

\* A call that writes the merged headers back into the instance defaults.
Invoke_HeadersStick(inv) ==
    /\ status = "ok"
    /\ Len(calls) < MaxCalls
    /\ \A i \in 1..Len(calls) : calls[i].state # "inflight"
    /\ LET merged == AxiosMerge(facade[1][inv.client].transport, inv.request)
       IN /\ calls' = Append(calls, NewCall(inv, merged))
          /\ facade' = Some([facade[1] EXCEPT ![inv.client].transport.headers = merged.headers])
    /\ UNCHANGED <<status, build, env, namespaces, events>>

\* v1.method(...) / v2.method(...), the part that runs before the method
\* returns its promise: the method builds the request, get/post hands it to
\* the transport instance, which merges it with its defaults and queues the
\* interceptors.  Nothing is logged yet.
Call(inv) ==
    /\ status = "ok"
    /\ calls' = Append(calls,
          NewCall(inv, AxiosMerge(facade[1][inv.client].transport, inv.request)))
    /\ UNCHANGED <<status, facade, build, env, namespaces, events>>

\* A method call by a caller that awaits each call before the next, while
\* fewer than MaxCalls were made.  (Calls that overlap are made by
\* InvokeInFlight, below.)
Invoke(inv) ==
    /\ Len(calls) < MaxCalls
    /\ \A i \in 1..Len(calls) : calls[i].state # "inflight"
    /\ Call(inv)

\* The request interceptor's fulfilled handler runs: it reads process.env
\* and logs the request, and the transport dispatches what it returned.  If
\* the logging throws, the chain holds that error and skips the dispatch.
RunRequestInterceptor(i) ==
    /\ i \in 1..Len(calls)
    /\ calls[i].at = "request"
    /\ LET rq == OnRequestFulfilled(facade[1][calls[i].client], Values(env), calls[i].merged)
           throws == rq.logged.data # None /\ LoggerThrows(build, rq.logged.data[1])
       IN IF throws
          THEN /\ events' = events
               /\ calls' = [calls EXCEPT ![i].at = "failed",
                                         ![i].reply = Some(Rejects(SerializeError))]
          ELSE /\ events' = Emit(Enabled(namespaces, LoggerName(LoggerNamespace, "trace")),
                                 events, Event(i, "request", rq.logged))
               /\ calls' = [calls EXCEPT ![i].at = "dispatched",
                                         ![i].wire = Some(rq.returned)]
    /\ UNCHANGED <<status, facade, build, env, namespaces>>

\* The response interceptor's rejected handler receives the error the
\* request interceptor threw: it logs it and rejects with it.
RunResponseRejected(i) ==
    /\ i \in 1..Len(calls)
    /\ calls[i].at = "failed"
    /\ events' = Emit(Enabled(namespaces, LoggerName(LoggerNamespace, "error")), events,
                      Event(i, "error", OnRejected(calls[i].reply[1].error[1]).logged))
    /\ calls' = [calls EXCEPT
                    ![i].at = "settling",
                    ![i].reply = Some(Rejects(RejectionAfterLog(build, calls[i].reply[1].error[1])))]
    /\ UNCHANGED <<status, facade, build, env, namespaces>>

\* One response slot for the instance: an arriving outcome is given to every
\* dispatched call (requests coalesced on the shared transport).
Deliver_Coalesced(i) ==
    /\ i \in 1..Len(calls)
    /\ calls[i].at = "dispatched"
    /\ \E o \in TransportOutcomes(calls[i].wire[1]) :
          /\ events' = Emit(Enabled(namespaces, LoggerName(LoggerNamespace,
                                        IF o.ok THEN "trace" ELSE "error")), events,
                 Event(i, IF o.ok THEN "response" ELSE "error",
                       IF o.ok THEN OnResponseFulfilled(o.response[1]).logged
                       ELSE OnRejected(o.error[1]).logged))
          /\ calls' = [ j \in 1..Len(calls) |->
                 IF calls[j].at # "dispatched" THEN calls[j]
                 ELSE [calls[j] EXCEPT !.outcome = Some(o), !.at = "settling",
                                       !.reply = Some(o)] ]
    /\ UNCHANGED <<status, facade, build, env, namespaces>>

\* A retry loop in get/post: the first failure is logged and the request is
\* handed to the transport a second time.
Deliver_RetryOnce(i) ==
    /\ i \in 1..Len(calls)
    /\ calls[i].at = "dispatched"
    /\ \E o \in TransportOutcomes(calls[i].wire[1]) :
        IF o.ok
        THEN /\ events' = Emit(Enabled(namespaces, LoggerName(LoggerNamespace, "trace")), events,
                      Event(i, "response", OnResponseFulfilled(o.response[1]).logged))
             /\ calls' = [calls EXCEPT ![i].outcome = Some(o), ![i].at = "settling",
                                       ![i].reply = Some(o)]
        ELSE /\ events' = Emit(Enabled(namespaces, LoggerName(LoggerNamespace, "error")), events,
                               Event(i, "error", OnRejected(o.error[1]).logged))
             /\ calls' = IF calls[i].attempts = 1
                         THEN [calls EXCEPT ![i].attempts = 2]
                         ELSE [calls EXCEPT ![i].outcome = Some(o), ![i].at = "settling",
                                            ![i].reply = Some(o)]
    /\ UNCHANGED <<status, facade, build, env, namespaces>>

\* A timeout that is recorded and logged but never rejects the promise.
Deliver_TimeoutNeverSettles(i) ==
    /\ i \in 1..Len(calls)
    /\ calls[i].at = "dispatched"
    /\ calls[i].outcome = None
    /\ \E o \in TransportOutcomes(calls[i].wire[1]) :
        IF o.ok
        THEN /\ events' = Emit(Enabled(namespaces, LoggerName(LoggerNamespace, "trace")), events,
                      Event(i, "response", OnResponseFulfilled(o.response[1]).logged))
             /\ calls' = [calls EXCEPT ![i].outcome = Some(o), ![i].at = "settling",
                                       ![i].reply = Some(o)]
        ELSE /\ events' = Emit(Enabled(namespaces, LoggerName(LoggerNamespace, "error")), events,
                               Event(i, "error", OnRejected(o.error[1]).logged))
             /\ calls' = IF o.error[1].code = "ECONNABORTED"
                         THEN [calls EXCEPT ![i].outcome = Some(o)]
                         ELSE [calls EXCEPT ![i].outcome = Some(o), ![i].at = "settling",
                                            ![i].reply = Some(o)]
    /\ UNCHANGED <<status, facade, build, env, namespaces>>

\* The transport delivers the outcome of a dispatched request and the
\* response interceptor handles it: the fulfilled handler logs the response
\* and returns it; the rejected handler logs the error and rejects with it.
\* The awaited this.client.get/post is settled; get/post has not resumed.
Deliver(i) ==
    /\ i \in 1..Len(calls)
    /\ calls[i].at = "dispatched"
    /\ \E o \in TransportOutcomes(calls[i].wire[1]) :
        IF o.ok
        THEN LET rs == OnResponseFulfilled(o.response[1])
             IN IF LoggerThrows(build, rs.logged.data)
                THEN /\ events' = events
                     /\ calls' = [calls EXCEPT ![i].outcome = Some(o),
                                               ![i].at = "settling",
                                               ![i].reply = Some(Rejects(SerializeError))]
                ELSE /\ events' = Emit(Enabled(namespaces, LoggerName(LoggerNamespace, "trace")),
                                       events, Event(i, "response", rs.logged))
                     /\ calls' = [calls EXCEPT ![i].outcome = Some(o),
                                               ![i].at = "settling",
                                               ![i].reply = Some(Resolves(rs.returned))]
        ELSE /\ events' = Emit(Enabled(namespaces, LoggerName(LoggerNamespace, "error")), events,
                               Event(i, "error", OnRejected(o.error[1]).logged))
             /\ calls' = [calls EXCEPT
                            ![i].outcome = Some(o),
                            ![i].at = "settling",
                            ![i].reply = Some(Rejects(RejectionAfterLog(build, o.error[1])))]
    /\ UNCHANGED <<status, facade, build, env, namespaces>>

\* get/post resumes after its await: it returns formatResponse(response), or
\* the rejection passes through it, and the promise the method returned
\* settles.
Settle(i) ==
    /\ i \in 1..Len(calls)
    /\ calls[i].at = "settling"
    /\ calls' = IF calls[i].reply[1].ok
                THEN [calls EXCEPT ![i].at = "settled", ![i].state = "resolved",
                                   ![i].value = Some(formatResponse(calls[i].reply[1].response[1]))]
                ELSE [calls EXCEPT ![i].at = "settled", ![i].state = "rejected",
                                   ![i].error = calls[i].reply[1].error]
    /\ UNCHANGED <<status, facade, build, env, namespaces, events>>

\* The steps of call i after the method has returned.
Step(i) ==
    \/ RunRequestInterceptor(i)
    \/ RunResponseRejected(i)
    \/ Deliver(i)
    \/ Settle(i)

(***************************************************************************)
(* The client in use: a facade constructed with options that leave the     *)
(* base URL and timeout to their defaults, then any calls.                 *)
(***************************************************************************)
RunOptions ==
    { o \in AllOptions : ~Has(o, "baseUrl") /\ ~Has(o, "timeout") /\ Has(o, "debug")
                          /\ (Has(o, "headers") => o.headers # EmptyObj) }
\* What DEBUG holds when the facade in use is constructed.
RunNamespaces == { <<>>, <<"accountkit", "trace">> }

Init ==
    /\ status = "ok"
    /\ build \in Builds
    /\ calls = <<>>
    /\ events = <<>>
    /\ \E k \in ApiKeys, o \in RunOptions, b \in ProcessEnvs, ns \in RunNamespaces :
          /\ facade = Some(NewAccountKit(k, EnvQA, o))
          /\ namespaces = DebugAfterLogger(ns, LoggerNamespace,
                                           LoggerEnabled(FacadeConfig(k, EnvQA, o)))
          /\ env = EnvAfterLogger(LoadedEnv(b, ns), LoggerNamespace,
                                  LoggerEnabled(FacadeConfig(k, EnvQA, o)))

Next ==
    \/ \E inv \in Invocations : Invoke(inv)
    \/ \E i \in 1..MaxCalls : Step(i)

Spec == Init /\ [][Next]_vars

(***************************************************************************)
(* Several loggers in one process.  The debug library's enabled pattern is *)
(* shared: constructing another facade, or a scoped Logger, runs the       *)
(* Logger constructor again.  The other facade's own requests are not      *)
(* followed.                                                               *)
(***************************************************************************)
\* new AccountKit(apiKey, environment, options) elsewhere in the process.
ConstructAnother(apiKey, environment, options) ==
    /\ status = "ok"
    /\ namespaces' = DebugAfterLogger(namespaces, LoggerNamespace,
                                      LoggerEnabled(FacadeConfig(apiKey, environment, options)))
    /\ env' = EnvAfterLogger(env, LoggerNamespace,
                             LoggerEnabled(FacadeConfig(apiKey, environment, options)))
    /\ UNCHANGED <<status, facade, build, calls, events>>

\* Logger.scope(scope) on the logger of client c (a protected field, within
\* reach of a subclass): new Logger(`${namespace}:${scope}`, this.enabled).
Scopes == {"v1"}
Scope(c, scope) ==
    /\ status = "ok"
    /\ namespaces' = DebugAfterLogger(namespaces, Append(LoggerNamespace, scope),
                                      facade[1][c].loggerEnabled)
    /\ env' = EnvAfterLogger(env, Append(LoggerNamespace, scope),
                             facade[1][c].loggerEnabled)
    /\ UNCHANGED <<status, facade, build, calls, events>>

\* A fresh process: DEBUG is unset, so nothing has enabled a namespace
\* before the facade's own construction.
InitDebug ==
    /\ status = "ok"
    /\ build \in Builds
    /\ calls = <<>>
    /\ events = <<>>
    /\ \E k \in ApiKeys, o \in RunOptions, b \in ProcessEnvs :
          /\ facade = Some(NewAccountKit(k, EnvQA, o))
          /\ namespaces = DebugAfterLogger(<<>>, LoggerNamespace,
                                           LoggerEnabled(FacadeConfig(k, EnvQA, o)))
          /\ env = EnvAfterLogger(b, LoggerNamespace,
                                  LoggerEnabled(FacadeConfig(k, EnvQA, o)))

NextDebug ==
    \/ \E inv \in Invocations : Invoke(inv)
    \/ \E i \in 1..MaxCalls : Step(i)
    \/ \E k \in ApiKeys, o \in RunOptions : ConstructAnother(k, EnvQA, o)
    \/ \E c \in {"v1", "v2"}, sc \in Scopes : Scope(c, sc)

SpecDebug == InitDebug /\ [][NextDebug]_vars

(***************************************************************************)
(* Calls that overlap: a method is called while earlier calls on the same  *)
(* facade are in flight, and the steps of the calls interleave in any      *)
(* order.  Each step of a promise chain is a queued job of the event loop, *)
(* which runs every job it holds; the outcome of a dispatched request is   *)
(* delivered.  So under fairness every step of every call happens.         *)
(***************************************************************************)
\* One call of each client: a V2 call, and the V1 call with the body the
\* Logger may fail to serialise.
ConcurrentMethods == {"calculateAccountAddress", "executeLitAction"}
ConcurrentInvocations ==
    { inv \in Invocations :
        /\ inv.method \in ConcurrentMethods
        /\ inv.method = "calculateAccountAddress" => inv.args.platform = "twitter"
        /\ inv.method = "executeLitAction" => ContainsBigInt(inv.request.data[1]) }
ConcurrentOptions == { [debug |-> b] : b \in BOOLEAN }

InvokeInFlight(inv) ==
    /\ Len(calls) < MaxInFlight
    /\ Call(inv)

InitConcurrent ==
    /\ status = "ok"
    /\ build \in Builds
    /\ calls = <<>>
    /\ events = <<>>
    /\ \E k \in ApiKeys, o \in ConcurrentOptions :
          /\ facade = Some(NewAccountKit(k, EnvQA, o))
          /\ namespaces = DebugAfterLogger(<<>>, LoggerNamespace,
                                           LoggerEnabled(FacadeConfig(k, EnvQA, o)))
          /\ env = EnvAfterLogger(EmptyObj, LoggerNamespace,
                                  LoggerEnabled(FacadeConfig(k, EnvQA, o)))

NextConcurrent ==
    \/ \E inv \in ConcurrentInvocations : InvokeInFlight(inv)
    \/ \E i \in 1..MaxInFlight : Step(i)

SpecConcurrent == InitConcurrent /\ [][NextConcurrent]_vars

\* While some call has a step to take, a step of some call is taken: the
\* event loop does not stop with jobs queued or outcomes undelivered.
FairSpecConcurrent ==
    /\ InitConcurrent /\ [][NextConcurrent]_vars
    /\ WF_vars(\E i \in 1..MaxInFlight : Step(i))

(***************************************************************************)
(* The life of one facade: the construction, over the options that decide  *)
(* the base URL, the timeout and the default headers, and then calls on    *)
(* both of its clients.                                                    *)
(***************************************************************************)
FacadeOptions == { o \in AllOptions : ~Has(o, "debug") }

\* Before new AccountKit(...): a fresh process, DEBUG unset.
InitFacade ==
    /\ status = "none"
    /\ facade = None
    /\ build \in Builds
    /\ namespaces = <<>>
    /\ env = EmptyObj
    /\ calls = <<>>
    /\ events = <<>>

NextFacade ==
    \/ \E k \in ApiKeys, e \in Environments, o \in FacadeOptions : Construct(k, e, o)
    \/ \E inv \in ConcurrentInvocations : Invoke(inv)
    \/ \E i \in 1..MaxCalls : Step(i)

SpecFacade == InitFacade /\ [][NextFacade]_vars

(***************************************************************************)
(* Properties of the construction (checked under SpecConfig).              *)
(***************************************************************************)
Clients == IF facade = None THEN {} ELSE {facade[1].v1, facade[1].v2}

\* C1 as stated: whenever the configuration has a baseUrl, each transport is
\* bound to exactly that string; without one PROD binds the production host
\* and QA the QA host.
C1_AsStated ==
    \A c \in Clients :
        /\ Has(c.config, "baseUrl") => c.transport.baseURL = c.config.baseUrl
        /\ ~Has(c.config, "baseUrl") =>
              /\ c.config.environment = EnvPROD => c.transport.baseURL = ProdUrl
              /\ c.config.environment = EnvQA => c.transport.baseURL = QaUrl

\* C1, amended: a non-empty baseUrl binds each transport to exactly that
\* string whatever the environment; with no baseUrl or an empty one, PROD
\* binds https://api.collab.land and QA binds https://api-qa.collab.land.
C1_BaseUrlResolution ==
    \A c \in Clients :
        /\ (Has(c.config, "baseUrl") /\ c.config.baseUrl # "") =>
              c.transport.baseURL = c.config.baseUrl
        /\ (~Has(c.config, "baseUrl") \/ c.config.baseUrl = "") =>
              /\ c.config.environment = EnvPROD =>
                    c.transport.baseURL = "https://api.collab.land"
              /\ c.config.environment = EnvQA =>
                    c.transport.baseURL = "https://api-qa.collab.land"

\* A facade built for PROD with an override: both transports use the override.
C1_Witness ==
    /\ status = "ok"
    /\ facade[1].config.environment = EnvPROD
    /\ Has(facade[1].config, "baseUrl")
    /\ facade[1].config.baseUrl = "https://custom.example"
    /\ facade[1].v1.transport.baseURL = "https://custom.example"
    /\ facade[1].v2.transport.baseURL = "https://custom.example"

\* C2, the claim: no facade exists whose environment is neither PROD nor QA
\* and whose configuration has no baseUrl: that construction fails.
C2_UnknownEnvironmentFails ==
    status = "ok" =>
        ~ ( /\ facade[1].config.environment \notin {EnvPROD, EnvQA}
            /\ ~Has(facade[1].config, "baseUrl") )

(***************************************************************************)
(* Properties of the calls (checked under Spec).                           *)
(***************************************************************************)
Config == facade[1].config
ClientOf(c) == facade[1][c.client]
CallIds == 1..Len(calls)
Dispatched == { i \in CallIds : calls[i].wire # None }
Delivered == { i \in CallIds : calls[i].outcome # None }
Failed == { i \in Delivered : ~calls[i].outcome[1].ok }
Succeeded == { i \in Delivered : calls[i].outcome[1].ok }

\* C3 as stated: every request handed to the transport carries X-API-KEY
\* with the apiKey the facade was constructed with.
C3_AsStated ==
    \A i \in Dispatched :
        /\ Has(calls[i].wire[1].headers, HApiKey)
        /\ calls[i].wire[1].headers[HApiKey] = Config.apiKey

\* C3, amended: every request handed to the transport carries X-API-KEY; its
\* value is the facade's apiKey unless the configured extra headers have an
\* X-API-KEY entry of their own, and then it is that entry's value.
C3_ApiKeyHeader ==
    \A i \in Dispatched :
        /\ Has(calls[i].wire[1].headers, "X-API-KEY")
        /\ calls[i].wire[1].headers["X-API-KEY"] =
              IF Has(Config, "headers") /\ Has(Config.headers, "X-API-KEY")
              THEN Config.headers["X-API-KEY"]
              ELSE Config.apiKey

\* A V1 request with its bot token and extra headers, carrying the apiKey.
C3_Witness ==
    \E i \in Dispatched :
        /\ calls[i].method \in V1Methods
        /\ Has(Config, "headers") /\ Has(Config.headers, "X-Custom-Header")
        /\ Has(calls[i].wire[1].headers, HBotToken)
        /\ calls[i].wire[1].headers[HApiKey] = "api-key-1"

\* C4: a call whose response has a status outside the success range never
\* resolves, and when it settles it is rejected with an error exposing that
\* status and that body; no call resolves with an envelope of such a status.
C4_HttpErrorRejects ==
    /\ \A i \in Failed :
          calls[i].outcome[1].error[1].response # None =>
              /\ calls[i].state # "resolved"
              /\ calls[i].value = None
              /\ calls[i].state = "rejected" =>
                    /\ calls[i].error # None
                    /\ calls[i].error[1].response # None
                    /\ calls[i].error[1].response[1].status =
                          calls[i].outcome[1].error[1].response[1].status
                    /\ calls[i].error[1].response[1].data =
                          calls[i].outcome[1].error[1].response[1].data
    /\ \A i \in CallIds :
          calls[i].state = "resolved" => SuccessStatus(calls[i].value[1].status)

C4_Witness ==
    \E i \in CallIds :
        /\ calls[i].method = "calculateAccountAddress"
        /\ calls[i].state = "rejected"
        /\ calls[i].error[1].response # None
        /\ calls[i].error[1].response[1].status = 404
        /\ calls[i].error[1].response[1].data = [error |-> "User not found"]

\* C5: a call whose request fails without a response (no connection, or the
\* timeout) never resolves and is rejected with a failure that has no
\* response and so no status, while the failure of a non-success status
\* always has one.
C5_NetworkErrorHasNoStatus ==
    \A i \in Failed :
        /\ calls[i].state # "resolved"
        /\ calls[i].state = "rejected" =>
              /\ calls[i].error # None
              /\ calls[i].outcome[1].error[1].code \in {"ERR_NETWORK", "ECONNABORTED"} =>
                    calls[i].error[1].response = None
              /\ calls[i].outcome[1].error[1].response # None =>
                    calls[i].error[1].response # None

C5_Witness ==
    \E i \in CallIds :
        /\ calls[i].state = "rejected"
        /\ calls[i].outcome # None
        /\ calls[i].error[1].code = "ECONNABORTED"
        /\ calls[i].error[1].response = None

\* C6: a call with a successful transport result is never rejected, and the
\* value it resolves with is exactly {data, status, headers}, each field that
\* of the transport result.
C6_EnvelopeIsResponse ==
    \A i \in Succeeded :
        /\ calls[i].state # "rejected"
        /\ calls[i].error = None
        /\ calls[i].state = "resolved" =>
              calls[i].value =
                  Some([ data |-> calls[i].outcome[1].response[1].data,
                         status |-> calls[i].outcome[1].response[1].status,
                         headers |-> calls[i].outcome[1].response[1].headers ])

C6_Witness ==
    \E i \in CallIds :
        /\ calls[i].request.verb = "put"
        /\ calls[i].state = "resolved"
        /\ calls[i].value[1].data = [pkpAddress |-> "0xC170"]
        /\ calls[i].value[1].status = 200

\* C7: a call whose transport produced a failure never resolves; what the
\* interceptor passes on, and what the call is rejected with, is that very
\* error value.
C7_ErrorUnchanged ==
    \A i \in Failed :
        /\ calls[i].state # "resolved"
        /\ calls[i].value = None
        /\ calls[i].reply = Some([ok |-> FALSE, response |-> None,
                                  error |-> calls[i].outcome[1].error])
        /\ calls[i].state = "rejected" => calls[i].error = calls[i].outcome[1].error

C7_Witness ==
    \E i \in Failed :
        /\ calls[i].outcome[1].error[1] = SetupError
        /\ calls[i].state = "rejected"
        /\ calls[i].error = Some(SetupError)

\* C8: in every emitted request event each header whose value is a value of
\* the configured extra headers or of process.env shows the mask, and the
\* request handed to the transport carries every header's original value.
C8_Redaction ==
    \A j \in 1..Len(events) :
        events[j].type = "request" =>
            LET c == calls[events[j].call]
                original == AxiosMerge(ClientOf(c).transport, c.request).headers
                logged == events[j].payload.headers
            IN /\ c.wire # None
               /\ c.wire[1].headers = original
               /\ \A h \in DOMAIN original :
                     original[h] \in (Values(env) \cup Values(ConfigHeaders(Config))) =>
                         (Has(logged, h) /\ logged[h] = "********")

C8_Witness ==
    \E j \in 1..Len(events) :
        /\ events[j].type = "request"
        /\ Has(events[j].payload.headers, HBotToken)
        /\ events[j].payload.headers[HBotToken] = "********"
        /\ calls[events[j].call].wire[1].headers[HBotToken] = "tok-1"
        /\ Has(events[j].payload.headers, "X-Custom-Header")
        /\ events[j].payload.headers["X-Custom-Header"] = "********"
        /\ calls[events[j].call].wire[1].headers["X-Custom-Header"] = "secret-1"

\* C9, the claim: emitting events never decides a call.  Every settled call
\* has the settlement some outcome of the transport for its request gives
\* when nothing is logged: the formatted response, or the transport's error.
C9_EmissionNeverDecides ==
    \A i \in CallIds :
        calls[i].state # "inflight" =>
            \E o \in TransportOutcomes(AxiosMerge(ClientOf(calls[i]).transport,
                                                  calls[i].request)) :
                IF o.ok
                THEN /\ calls[i].state = "resolved"
                     /\ calls[i].value = Some(formatResponse(o.response[1]))
                ELSE /\ calls[i].state = "rejected"
                     /\ calls[i].error = o.error

\* C10 as stated: no V1 request carries X-ACCESS-TOKEN and no V2 request
\* carries X-TG-BOT-TOKEN, whatever the configuration.
C10_AsStated ==
    \A i \in Dispatched :
        /\ calls[i].method \in V1Methods => ~Has(calls[i].wire[1].headers, HAccessToken)
        /\ calls[i].method \in V2Methods => ~Has(calls[i].wire[1].headers, HBotToken)

\* The per-call headers of a request, and whether the configured extra
\* headers account for header h of a dispatched request.
PerCallHeaders(req) ==
    IF req.config # None /\ Has(req.config[1], "headers")
    THEN req.config[1].headers ELSE EmptyObj
FromExtraHeaders(wire, h) ==
    /\ Has(Config, "headers") /\ Has(Config.headers, h)
    /\ wire.headers[h] = Config.headers[h]

\* C10, amended: no V1 method attaches X-ACCESS-TOKEN and no V2 method
\* attaches X-TG-BOT-TOKEN; a V1 request carries X-ACCESS-TOKEN (a V2 request
\* X-TG-BOT-TOKEN) only when the configured extra headers contain it, and
\* then with the configured value.
C10_AuthHeaderPaths ==
    \A i \in Dispatched :
        /\ calls[i].method \in V1Methods =>
              /\ ~Has(PerCallHeaders(calls[i].request), "X-ACCESS-TOKEN")
              /\ Has(calls[i].wire[1].headers, "X-ACCESS-TOKEN") =>
                    FromExtraHeaders(calls[i].wire[1], "X-ACCESS-TOKEN")
        /\ calls[i].method \in V2Methods =>
              /\ ~Has(PerCallHeaders(calls[i].request), "X-TG-BOT-TOKEN")
              /\ Has(calls[i].wire[1].headers, "X-TG-BOT-TOKEN") =>
                    FromExtraHeaders(calls[i].wire[1], "X-TG-BOT-TOKEN")

C10_Witness ==
    \E i \in Dispatched :
        /\ calls[i].method = "mintWowToken"
        /\ Has(calls[i].wire[1].headers, HBotToken)
        /\ ~Has(calls[i].wire[1].headers, HAccessToken)

(***************************************************************************)
(* The call-level authentication of each method.                           *)
(***************************************************************************)
AuthHeaderNames == {HBotToken, HAccessToken}
\* The authentication headers a method passes with its call, and those the
\* request handed to the transport carries.
CallAuth(req) == { h \in AuthHeaderNames : Has(PerCallHeaders(req), h) }
WireAuth(wire) == { h \in AuthHeaderNames : Has(wire.headers, h) }
TokenBearingV2Methods ==
    {"getSmartAccountDetails", "submitEvmUserOperation", "submitSolanaTransaction"}

\* C11 as stated: every V1 and V2 method attaches exactly one of the bot
\* token and the access token to its request, which also carries X-API-KEY.
C11_AsStated ==
    \A i \in Dispatched :
        calls[i].method \in (V1Methods \cup V2Methods) =>
            /\ Has(calls[i].wire[1].headers, HApiKey)
            /\ Cardinality(CallAuth(calls[i].request)) = 1

\* C11, amended: every request carries X-API-KEY; each V1 method attaches
\* X-TG-BOT-TOKEN and nothing else of the two, each of getSmartAccountDetails,
\* submitEvmUserOperation and submitSolanaTransaction attaches X-ACCESS-TOKEN
\* and nothing else of the two, and calculateAccountAddress attaches neither;
\* any further one on the request comes from the configured extra headers.
C11_CallLevelAuth ==
    \A i \in Dispatched :
        /\ Has(calls[i].wire[1].headers, "X-API-KEY")
        /\ calls[i].method \in V1Methods =>
              CallAuth(calls[i].request) = {"X-TG-BOT-TOKEN"}
        /\ calls[i].method \in TokenBearingV2Methods =>
              CallAuth(calls[i].request) = {"X-ACCESS-TOKEN"}
        /\ calls[i].method = "calculateAccountAddress" =>
              CallAuth(calls[i].request) = {}
        /\ \A h \in WireAuth(calls[i].wire[1]) \ CallAuth(calls[i].request) :
              FromExtraHeaders(calls[i].wire[1], h)

\* A calculateAccountAddress request on the wire with the API key and no token.
C11_Witness ==
    \E i \in Dispatched :
        /\ calls[i].method = "calculateAccountAddress"
        /\ WireAuth(calls[i].wire[1]) = {}
        /\ calls[i].wire[1].headers[HApiKey] = "api-key-1"

\* C12: calculateAccountAddress(platform, userId) hands the transport, once,
\* a POST to /accountkit/v2/evm/calculateAccountAddress whose body is exactly
\* {platform, userId}, with no per-call configuration; its request
\* interceptor never fails, the request dispatched has the client's default
\* headers and an empty query, and after a successful response the call is
\* never rejected and resolves with that response's body and status.
C12_CalculateAccountAddress ==
    \A i \in CallIds :
        calls[i].method = "calculateAccountAddress" =>
            /\ calls[i].request.config = None
            /\ calls[i].request.verb = "post"
            /\ calls[i].request.path = <<"accountkit", "v2", "evm", "calculateAccountAddress">>
            /\ calls[i].request.data =
                  Some([platform |-> calls[i].args.platform, userId |-> calls[i].args.userId])
            /\ CallAuth(calls[i].request) = {}
            /\ calls[i].attempts = 1
            /\ calls[i].at \notin {"request", "failed"} =>
                  /\ calls[i].wire # None
                  /\ calls[i].wire[1].method = "post"
                  /\ calls[i].wire[1].url =
                        <<"accountkit", "v2", "evm", "calculateAccountAddress">>
                  /\ calls[i].wire[1].data =
                        Some([platform |-> calls[i].args.platform,
                              userId |-> calls[i].args.userId])
                  /\ DOMAIN calls[i].wire[1].params = {}
                  /\ calls[i].wire[1].headers = ClientOf(calls[i]).transport.headers
            /\ calls[i].at # "failed"
            /\ i \in Succeeded =>
                  /\ calls[i].state # "rejected"
                  /\ calls[i].state = "resolved" =>
                        /\ calls[i].value[1].data = calls[i].outcome[1].response[1].data
                        /\ calls[i].value[1].status = calls[i].outcome[1].response[1].status

C12_Witness ==
    \E i \in Succeeded :
        /\ calls[i].state = "resolved"
        /\ calls[i].method = "calculateAccountAddress"
        /\ calls[i].args = [platform |-> "github", userId |-> "44196397"]
        /\ calls[i].wire[1].data = Some([platform |-> "github", userId |-> "44196397"])
        /\ calls[i].value[1].data = [pkpAddress |-> "0xC170"]
        /\ calls[i].value[1].status = 200

(***************************************************************************)
(* The request of each method.                                             *)
(***************************************************************************)
\* C13: telegramBotSubmitSolanaTransaction(botToken, serializedTransactionBase64,
\* network) hands the transport a POST whose query is exactly {network}, whose
\* body is exactly {serializedTransactionBase64}, whose X-TG-BOT-TOKEN header
\* is botToken, and the network is in no path segment and no header.
C13_V1SolanaRequest ==
    \A i \in Dispatched :
        calls[i].method = "telegramBotSubmitSolanaTransaction" =>
            LET w == calls[i].wire[1]
                a == calls[i].args
            IN /\ w.method = "post"
               /\ w.params = [network |-> a.network]
               /\ w.data = Some([serializedTransactionBase64 |-> a.serializedTransactionBase64])
               /\ Has(w.headers, "X-TG-BOT-TOKEN")
               /\ w.headers["X-TG-BOT-TOKEN"] = a.botToken
               /\ \A k \in 1..Len(w.url) : w.url[k] # a.network
               /\ \A h \in DOMAIN w.headers : w.headers[h] # a.network

\* The request of a client configured with an X-TG-BOT-TOKEN extra header:
\* the header on the wire is the call's bot token.
C13_Witness ==
    \E i \in Dispatched :
        /\ calls[i].method = "telegramBotSubmitSolanaTransaction"
        /\ Has(Config, "headers") /\ Has(Config.headers, HBotToken)
        /\ calls[i].wire[1].headers[HBotToken] = "tok-1"
        /\ calls[i].wire[1].params = [network |-> "SOL_DEVNET"]
        /\ calls[i].wire[1].data = Some([serializedTransactionBase64 |-> "AQID"])

\* C14: the request every V1 method builds has a path that continues
\* /accountkit/v1/telegrambot and passes X-TG-BOT-TOKEN with the call's
\* botToken, and so has the request handed to the transport.
C14_V1PathAndBotToken ==
    \A i \in CallIds :
        calls[i].method \in V1Methods =>
            /\ Len(calls[i].request.path) > 3
            /\ SubSeq(calls[i].request.path, 1, 3) = <<"accountkit", "v1", "telegrambot">>
            /\ PerCallHeaders(calls[i].request) =
                  [h \in {"X-TG-BOT-TOKEN"} |-> calls[i].args.botToken]
            /\ calls[i].wire # None =>
                  /\ calls[i].wire[1].url = calls[i].request.path
                  /\ calls[i].wire[1].headers["X-TG-BOT-TOKEN"] = calls[i].args.botToken

C14_Witness ==
    \E i \in Dispatched :
        /\ calls[i].method = "telegramBotGetSmartAccounts"
        /\ calls[i].args.botToken = "tok-2"
        /\ calls[i].wire[1].url = <<"accountkit", "v1", "telegrambot", "accounts">>
        /\ calls[i].wire[1].headers[HBotToken] = "tok-2"

\* C15: getSmartAccountDetails, submitEvmUserOperation and
\* submitSolanaTransaction send the access token as the X-ACCESS-TOKEN header
\* (the only header they pass) and the platform as the query parameter
\* platform; no header holds the platform and the body has no platform field.
C15_V2TokenAndPlatform ==
    \A i \in Dispatched :
        calls[i].method \in TokenBearingV2Methods =>
            LET w == calls[i].wire[1]
                a == calls[i].args
            IN /\ PerCallHeaders(calls[i].request) =
                     [h \in {"X-ACCESS-TOKEN"} |-> a.accessToken]
               /\ w.headers["X-ACCESS-TOKEN"] = a.accessToken
               /\ Has(w.params, "platform")
               /\ w.params.platform = a.platform
               /\ ~Has(w.params, "accessToken")
               /\ \A h \in DOMAIN w.headers : w.headers[h] # a.platform
               /\ w.data # None => ~Has(w.data[1], "platform")

C15_Witness ==
    \E i \in Dispatched :
        /\ calls[i].method = "submitSolanaTransaction"
        /\ Has(Config, "headers") /\ Has(Config.headers, HAccessToken)
        /\ calls[i].wire[1].headers[HAccessToken] = "tok-1"
        /\ calls[i].wire[1].params = [platform |-> "twitter", network |-> "SOL_DEVNET"]

\* C16: telegramBotSubmitEvmUserOperation sends the user operation itself as
\* the body with query exactly {chainId}; submitEvmUserOperation sends its
\* {userOps: [...]} argument unchanged with query exactly {chainId, platform}.
C16_EvmSubmissionShapes ==
    \A i \in Dispatched :
        LET w == calls[i].wire[1]
            a == calls[i].args
        IN /\ calls[i].method = "telegramBotSubmitEvmUserOperation" =>
                 /\ w.method = "post"
                 /\ w.data = Some(a.userOp)
                 /\ ~Has(w.data[1], "userOps")
                 /\ w.params = [chainId |-> a.chainId]
           /\ calls[i].method = "submitEvmUserOperation" =>
                 /\ w.method = "post"
                 /\ w.data = Some(a.userOp)
                 /\ DOMAIN w.data[1] = {"userOps"}
                 /\ w.params = [chainId |-> a.chainId, platform |-> a.platform]

C16_Witness ==
    \E i \in Dispatched :
        /\ calls[i].method = "telegramBotSubmitEvmUserOperation"
        /\ calls[i].wire[1].data =
              Some([target |-> "0xabc", callData |-> "0x", value |-> "0"])
        /\ calls[i].wire[1].params = [chainId |-> 8453]

\* C17 as stated: executeLitAction and mintWowToken produce the request of
\* their entries: a POST with the bot token header, the body of the entry
\* ({actionIpfs, actionJsParams}; tokenData) and the query of the entry, which
\* lists none.
C17_AsStated ==
    \A i \in Dispatched :
        calls[i].method \in {"executeLitAction", "mintWowToken"} =>
            /\ calls[i].wire[1].method = "post"
            /\ calls[i].wire[1].headers[HBotToken] = calls[i].args.botToken
            /\ DOMAIN calls[i].wire[1].params = {}

\* C17, amended: executeLitAction builds a POST to
\* /accountkit/v1/telegrambot/executeActionUsingPKP with body exactly
\* {actionIpfs, actionJsParams}, and mintWowToken a POST to
\* /accountkit/v1/telegrambot/wow/mint with body exactly tokenData; both pass
\* the query {chainId} and the header X-TG-BOT-TOKEN = botToken, and a
\* request handed to the transport is the one built.
C17_LitActionAndMintRequests ==
    \A i \in CallIds :
        LET r == calls[i].request
            a == calls[i].args
        IN /\ calls[i].method = "executeLitAction" =>
                 /\ r.verb = "post"
                 /\ r.path = <<"accountkit", "v1", "telegrambot", "executeActionUsingPKP">>
                 /\ r.data = Some([actionIpfs |-> a.actionIpfs,
                                   actionJsParams |-> a.actionJsParams])
           /\ calls[i].method = "mintWowToken" =>
                 /\ r.verb = "post"
                 /\ r.path = <<"accountkit", "v1", "telegrambot", "wow", "mint">>
                 /\ r.data = Some(a.tokenData)
           /\ calls[i].method \in {"executeLitAction", "mintWowToken"} =>
                 /\ r.config = Some([headers |-> [h \in {"X-TG-BOT-TOKEN"} |-> a.botToken],
                                     params |-> [chainId |-> a.chainId]])
                 /\ calls[i].wire # None =>
                       /\ calls[i].wire[1].method = "post"
                       /\ calls[i].wire[1].url = r.path
                       /\ calls[i].wire[1].data = r.data
                       /\ calls[i].wire[1].params = [chainId |-> a.chainId]
                       /\ calls[i].wire[1].headers["X-TG-BOT-TOKEN"] = a.botToken

C17_Witness ==
    \E i \in Dispatched :
        /\ calls[i].method = "executeLitAction"
        /\ calls[i].wire[1].data =
              Some([actionIpfs |-> "QmAction",
                    actionJsParams |-> [amount |-> [type |-> "string", v |-> "10"]]])
        /\ calls[i].wire[1].params = [chainId |-> 8453]
        /\ calls[i].wire[1].headers[HBotToken] = "tok-1"

\* C18: the headers of every request handed to the transport are the default
\* headers (Content-Type, X-API-KEY, then the configured extra headers)
\* under the per-call headers: a name the call passes has the call's value.
C18_HeaderMerge ==
    \A i \in Dispatched :
        LET extras == IF Has(Config, "headers") THEN Config.headers ELSE EmptyObj
            percall == PerCallHeaders(calls[i].request)
            w == calls[i].wire[1]
        IN /\ DOMAIN w.headers =
                 {"Content-Type", "X-API-KEY"} \cup DOMAIN extras \cup DOMAIN percall
           /\ \A h \in DOMAIN w.headers :
                 w.headers[h] =
                     IF h \in DOMAIN percall THEN percall[h]
                     ELSE IF h \in DOMAIN extras THEN extras[h]
                     ELSE IF h = "Content-Type" THEN "application/json"
                     ELSE Config.apiKey

\* A collision: the extra headers and the call both name X-TG-BOT-TOKEN.
C18_Witness ==
    \E i \in Dispatched :
        /\ calls[i].method = "telegramBotGetSolanaTransactionResponse"
        /\ Has(Config, "headers") /\ Has(Config.headers, HBotToken)
        /\ Config.headers[HBotToken] = "cfg-token"
        /\ calls[i].wire[1].headers[HBotToken] = "tok-1"
        /\ calls[i].wire[1].headers[HContentType] = "application/json"

(***************************************************************************)
(* The facade and its clients.                                             *)
(***************************************************************************)
\* C19: after a construction both clients hold the facade's configuration;
\* their transports are two instances, each bound to the base URL, the
\* timeout and the default headers that this one configuration gives, so to
\* the same ones; every call made on a client goes to that client's own
\* instance, with that base URL and timeout, and never to the other's; and
\* no step after the construction, a call or any step of its promise chain,
\* assigns v1 or v2 again.
C19_FacadeClients ==
    /\ [](status = "ok" =>
            /\ facade[1].v1.config = facade[1].config
            /\ facade[1].v2.config = facade[1].config
            /\ facade[1].v1.transport.id # facade[1].v2.transport.id
            /\ facade[1].v1.transport.baseURL = facade[1].v2.transport.baseURL
            /\ facade[1].v1.transport.timeout = facade[1].v2.transport.timeout
            /\ facade[1].v1.transport.headers = facade[1].v2.transport.headers
            /\ \A c \in {"v1", "v2"} :
                  /\ facade[1][c].transport.baseURL =
                        IF Has(Config, "baseUrl") /\ Config.baseUrl # ""
                        THEN Config.baseUrl
                        ELSE IF Config.environment = "PROD"
                             THEN "https://api.collab.land"
                             ELSE "https://api-qa.collab.land"
                  /\ facade[1][c].transport.timeout =
                        IF Has(Config, "timeout") /\ Config.timeout # 0
                        THEN Config.timeout ELSE 60000
                  /\ DOMAIN facade[1][c].transport.headers =
                        {"Content-Type", "X-API-KEY"}
                           \cup (IF Has(Config, "headers")
                                 THEN DOMAIN Config.headers ELSE {})
                  /\ \A h \in DOMAIN facade[1][c].transport.headers :
                        facade[1][c].transport.headers[h] =
                            IF Has(Config, "headers") /\ h \in DOMAIN Config.headers
                            THEN Config.headers[h]
                            ELSE IF h = "Content-Type" THEN "application/json"
                            ELSE Config.apiKey)
    /\ [](\A i \in CallIds :
            /\ calls[i].merged.instance = facade[1][calls[i].client].transport.id
            /\ calls[i].merged.instance #
                  facade[1][IF calls[i].client = "v1" THEN "v2" ELSE "v1"].transport.id
            /\ calls[i].merged.baseURL = facade[1][calls[i].client].transport.baseURL
            /\ calls[i].merged.timeout = facade[1][calls[i].client].transport.timeout)
    /\ [][status = "ok" =>
            /\ status' = "ok"
            /\ facade'[1].v1 = facade[1].v1
            /\ facade'[1].v2 = facade[1].v2]_vars

\* A facade constructed with an override, a timeout and an extra header, and
\* after it a settled call on v2 that went to v2's own transport instance.
C19_Witness ==
    /\ status = "ok"
    /\ facade[1].v1.transport.id # facade[1].v2.transport.id
    /\ facade[1].v1.transport.timeout = 15000
    /\ facade[1].v2.transport.timeout = 15000
    /\ facade[1].v1.transport.baseURL = "https://custom.example"
    /\ facade[1].v2.transport.baseURL = "https://custom.example"
    /\ Has(facade[1].v1.transport.headers, "X-Custom-Header")
    /\ Has(facade[1].v2.transport.headers, "X-Custom-Header")
    /\ \E i \in CallIds :
          /\ calls[i].client = "v2"
          /\ calls[i].at = "settled"
          /\ calls[i].merged.instance = facade[1].v2.transport.id
          /\ calls[i].merged.timeout = 15000

\* C20: no step of any method call changes a client's configuration, its
\* resolved base URL, its API key, or its transport's base URL, timeout or
\* default headers.
C20_CallsLeaveConfiguration ==
    [][\A c \in {"v1", "v2"} :
          /\ facade'[1].config = facade[1].config
          /\ facade'[1][c].config = facade[1][c].config
          /\ facade'[1][c].baseUrl = facade[1][c].baseUrl
          /\ facade'[1][c].apiKey = facade[1][c].apiKey
          /\ facade'[1][c].transport.baseURL = facade[1][c].transport.baseURL
          /\ facade'[1][c].transport.timeout = facade[1][c].transport.timeout
          /\ facade'[1][c].transport.headers = facade[1][c].transport.headers]_vars

\* A settled V1 call whose bot token went out on the wire and is not among
\* the defaults of its transport.
C20_Witness ==
    \E i \in Delivered :
        /\ calls[i].method \in V1Methods
        /\ Has(calls[i].wire[1].headers, HBotToken)
        /\ ~Has(ClientOf(calls[i]).transport.headers, HBotToken)
        /\ ClientOf(calls[i]).transport.timeout = 60000

(***************************************************************************)
(* Properties of overlapping calls (checked under SpecConcurrent).          *)
(***************************************************************************)
\* The settlement the outcome recorded for call c gives: the envelope of its
\* response, or its error.
SettledByOwnOutcome(c) ==
    /\ c.outcome # None
    /\ c.outcome[1] \in TransportOutcomes(c.wire[1])
    /\ IF c.outcome[1].ok
       THEN /\ c.state = "resolved"
            /\ c.error = None
            /\ c.value = Some([ data |-> c.outcome[1].response[1].data,
                                status |-> c.outcome[1].response[1].status,
                                headers |-> c.outcome[1].response[1].headers ])
       ELSE /\ c.state = "rejected"
            /\ c.value = None
            /\ c.error = c.outcome[1].error

\* C21: with several calls in flight on one facade, every call that was
\* dispatched settles with the outcome of its own request, a call in flight
\* holds no value or error and an outcome only of its own request, and every
\* step (the arrival of an outcome among them) changes the one call it
\* belongs to: no other call, settled or in flight.
C21_CallsIndependent ==
    /\ [](\A i \in CallIds :
            /\ (calls[i].state # "inflight" /\ calls[i].wire # None) =>
                  SettledByOwnOutcome(calls[i])
            /\ calls[i].outcome # None =>
                  /\ calls[i].wire # None
                  /\ calls[i].outcome[1] \in TransportOutcomes(calls[i].wire[1])
                  /\ calls[i].reply # None
                  /\ calls[i].reply[1].ok = calls[i].outcome[1].ok
            /\ calls[i].state = "inflight" =>
                  (calls[i].value = None /\ calls[i].error = None))
    /\ [][\A i \in CallIds :
            /\ calls[i].state # "inflight" => calls'[i] = calls[i]
            /\ \A j \in CallIds \ {i} :
                  calls'[i] # calls[i] => calls'[j] = calls[j]]_vars

\* Two calls in flight together; the answer to the second arrived first.
C21_Witness ==
    /\ Len(calls) = 2
    /\ calls[1].state = "rejected" /\ calls[1].error[1].response # None
    /\ calls[1].error[1].response[1].status = 404
    /\ calls[2].state = "resolved" /\ calls[2].value[1].status = 200
    /\ \E j, k \in 1..Len(events) :
          /\ j < k
          /\ events[j].call = 2 /\ events[j].type = "response"
          /\ events[k].call = 1 /\ events[k].type = "error"
          /\ \E r \in 1..(j - 1) : events[r].call = 2 /\ events[r].type = "request"

\* C22: every call hands its request to the transport instance once; the
\* request that reached the dispatch is never replaced by another; an outcome
\* that has arrived is final, and when it is a failure the call leaves the
\* dispatch with a rejection pending and is never dispatched again.
C22_NoRetry ==
    /\ [](\A i \in CallIds : calls[i].attempts = 1)
    /\ [][\A i \in CallIds :
            /\ calls'[i].attempts = calls[i].attempts
            /\ calls'[i].request = calls[i].request
            /\ calls[i].wire # None => calls'[i].wire = calls[i].wire
            /\ calls[i].outcome # None => calls'[i].outcome = calls[i].outcome
            /\ calls[i].at \in {"failed", "settling", "settled"} =>
                  calls'[i].at # "dispatched"
            /\ (calls[i].outcome = None /\ calls'[i].outcome # None) =>
                  /\ calls[i].at = "dispatched"
                  /\ calls'[i].at = "settling"
                  /\ ~calls'[i].outcome[1].ok =>
                        (calls'[i].reply # None /\ ~calls'[i].reply[1].ok)
            /\ (calls[i].at = "settling" /\ ~calls[i].reply[1].ok /\ calls'[i] # calls[i]) =>
                  calls'[i].state = "rejected"]_vars

\* A call rejected by a connection failure, with one request and one attempt.
C22_Witness ==
    \E i \in CallIds :
        /\ calls[i].state = "rejected"
        /\ calls[i].outcome # None
        /\ calls[i].outcome[1].error[1].code = "ERR_NETWORK"
        /\ calls[i].attempts = 1
        /\ Enabled(namespaces, <<"accountkit", "trace">>) =>
              Cardinality({ j \in 1..Len(events) :
                  events[j].call = i /\ events[j].type = "request" }) = 1

\* C23: under fair delivery there comes a point from which no call made is
\* pending: every call settles, whether or not its outcome has arrived yet;
\* a settled call is resolved with an envelope or rejected with a failure
\* and never changes again.
C23_EveryCallSettlesOnce ==
    /\ <>[](\A i \in CallIds : calls[i].state # "inflight")
    /\ [](\A i \in CallIds :
            /\ calls[i].state = "resolved" => (calls[i].value # None /\ calls[i].error = None)
            /\ calls[i].state = "rejected" => (calls[i].error # None /\ calls[i].value = None))
    /\ [][\A i \in CallIds :
            calls[i].state # "inflight" =>
                /\ calls'[i].state = calls[i].state
                /\ calls'[i].value = calls[i].value
                /\ calls'[i].error = calls[i].error]_vars

\* Two overlapping calls, both settled: one resolved, one timed out.
C23_Witness ==
    /\ Len(calls) = 2
    /\ calls[1].state = "resolved" /\ calls[1].value # None
    /\ calls[2].state = "rejected" /\ calls[2].error[1].code = "ECONNABORTED"

(***************************************************************************)
(* Where the configured headers and the credentials go.                    *)
(***************************************************************************)
\* C28: the defaults of both transports are Content-Type and X-API-KEY with
\* the configured extra headers spread over them: an extra header named
\* Content-Type or X-API-KEY replaces the built-in value, any other is added
\* with its value, and a request goes out with the extra header's value
\* unless the call passes a header of that name itself.
C28_ExtraHeadersOverDefaults ==
    LET extras == IF Has(Config, "headers") THEN Config.headers ELSE EmptyObj
    IN /\ \A c \in {"v1", "v2"} :
             /\ DOMAIN facade[1][c].transport.headers =
                   {"Content-Type", "X-API-KEY"} \cup DOMAIN extras
             /\ \A h \in DOMAIN facade[1][c].transport.headers :
                   facade[1][c].transport.headers[h] =
                       IF h \in DOMAIN extras THEN extras[h]
                       ELSE IF h = "Content-Type" THEN "application/json"
                       ELSE Config.apiKey
       /\ \A i \in Dispatched :
             \A h \in DOMAIN extras \ DOMAIN PerCallHeaders(calls[i].request) :
                 /\ Has(calls[i].wire[1].headers, h)
                 /\ calls[i].wire[1].headers[h] = extras[h]

\* A V2 request sent with the configured Content-Type instead of application/json.
C28_Witness ==
    \E i \in Dispatched :
        /\ calls[i].method = "getSmartAccountDetails"
        /\ Has(Config, "headers") /\ Has(Config.headers, HContentType)
        /\ calls[i].wire[1].headers[HContentType] = "application/x-www-form-urlencoded"
        /\ calls[i].wire[1].headers[HApiKey] = "api-key-1"
        /\ facade[1].v1.transport.headers[HContentType] = "application/x-www-form-urlencoded"

\* The strings of a request body, by the request types of the endpoint methods:
\* {userOps: [...]}, {actionIpfs, actionJsParams}, and the flat bodies.
BodyStrings(body) ==
    IF Has(body, "userOps")
    THEN UNION { Values(body.userOps[k]) : k \in DOMAIN body.userOps }
    ELSE IF Has(body, "actionJsParams")
    THEN {body.actionIpfs} \cup
         { body.actionJsParams[k].v : k \in DOMAIN body.actionJsParams }
    ELSE Values(body)
\* The strings of a query: every parameter but the numeric chainId.
QueryStrings(params) == { params[k] : k \in DOMAIN params \ {"chainId"} }
\* The credentials of a call: the facade's API key and the token argument.
Credentials(c) ==
    {Config.apiKey}
    \cup (IF Has(c.args, "botToken") THEN {c.args.botToken} ELSE {})
    \cup (IF Has(c.args, "accessToken") THEN {c.args.accessToken} ELSE {})

\* C29: in the request every call builds, and in the one handed to the
\* transport, no path segment, query parameter or body string is the API
\* key, the bot token or the access token, and no query parameter is named
\* after one; the token is the value of the call's own header.
C29_CredentialsOnlyInHeaders ==
    \A i \in CallIds :
        LET r == calls[i].request
            params == IF r.config # None /\ Has(r.config[1], "params")
                      THEN r.config[1].params ELSE EmptyObj
            creds == Credentials(calls[i])
        IN /\ \A k \in 1..Len(r.path) : r.path[k] \notin creds
           /\ QueryStrings(params) \cap creds = {}
           /\ DOMAIN params \cap {"apiKey", "botToken", "accessToken"} = {}
           /\ r.data # None => BodyStrings(r.data[1]) \cap creds = {}
           /\ calls[i].wire # None =>
                 /\ calls[i].wire[1].url = r.path
                 /\ calls[i].wire[1].params = params
                 /\ calls[i].wire[1].data = r.data
           /\ \A t \in creds \ {Config.apiKey} : t \in Values(PerCallHeaders(r))

C29_Witness ==
    \E i \in Dispatched :
        /\ calls[i].method = "submitEvmUserOperation"
        /\ calls[i].args.accessToken = "tok-1"
        /\ calls[i].wire[1].headers[HAccessToken] = "tok-1"
        /\ calls[i].wire[1].headers[HApiKey] = "api-key-1"
        /\ calls[i].wire[1].params = [chainId |-> 8453, platform |-> "github"]

(***************************************************************************)
(* Properties of the event stream.                                         *)
(***************************************************************************)
EventsOf(i) == { j \in 1..Len(events) : events[j].call = i }

\* C24, the claim: through a facade constructed with debug enabled, a call
\* has no event other than a request event until its outcome is known; once
\* its request is dispatched or the call has settled, its first event is the
\* request event; and a settled call has exactly one further event, the
\* response or the error.
C24_EventOrder ==
    LoggerEnabled(Config) =>
        \A i \in CallIds :
            /\ calls[i].outcome = None =>
                  \A k \in EventsOf(i) : events[k].type = "request"
            /\ (calls[i].wire # None \/ calls[i].state # "inflight") =>
                  \E j \in EventsOf(i) :
                      /\ events[j].type = "request"
                      /\ \A k \in EventsOf(i) : j <= k
            /\ calls[i].state # "inflight" =>
                  /\ Cardinality(EventsOf(i)) = 2
                  /\ \E k \in EventsOf(i) : events[k].type \in {"response", "error"}

\* C25, the claim: the facade's own debug option decides whether its
\* requests emit events, whatever other loggers the process constructs: with
\* debug disabled there is no event, with debug enabled every dispatched
\* request has one.
C25_DebugPerFacade ==
    /\ ~LoggerEnabled(Config) => events = <<>>
    /\ LoggerEnabled(Config) => \A i \in Dispatched : EventsOf(i) # {}

\* C26, the claim: in every request event the credential headers X-API-KEY,
\* X-TG-BOT-TOKEN and X-ACCESS-TOKEN show the mask.
C26_CredentialsMasked ==
    \A j \in 1..Len(events) :
        events[j].type = "request" =>
            \A h \in {"X-API-KEY", "X-TG-BOT-TOKEN", "X-ACCESS-TOKEN"} :
                Has(events[j].payload.headers, h) =>
                    events[j].payload.headers[h] = "********"

\* C27, the claim: without a timeout option each transport has the timeout
\* 10000; with one, the timeout supplied.
C27_DocumentedTimeout ==
    \A c \in Clients :
        /\ ~Has(c.config, "timeout") => c.transport.timeout = 10000
        /\ Has(c.config, "timeout") => c.transport.timeout = c.config.timeout

\* C30: the headers of every request event have the names of the request's
\* headers; a header shows the mask if and only if its value is a value of
\* process.env (DEBUG, which the Logger writes, among them) or of the
\* configured extra headers, and otherwise its own value; the headers of the
\* request handed on are the merged headers, unchanged.
C30_RedactionExact ==
    \A j \in 1..Len(events) :
        events[j].type = "request" =>
            LET c == calls[events[j].call]
                merged == AxiosMerge(ClientOf(c).transport, c.request).headers
                logged == events[j].payload.headers
                sensitive == Values(env) \cup Values(IF Has(Config, "headers")
                                              THEN Config.headers ELSE EmptyObj)
            IN /\ DOMAIN logged = DOMAIN merged
               /\ \A h \in DOMAIN merged :
                     /\ logged[h] = "********" <=> merged[h] \in sensitive
                     /\ merged[h] \notin sensitive => logged[h] = merged[h]
               /\ c.wire # None
               /\ c.wire[1].headers = merged

\* One event with a masked extra header beside credentials left in clear.
C30_Witness ==
    \E j \in 1..Len(events) :
        /\ events[j].type = "request"
        /\ "tok-1" \notin Values(env)
        /\ Has(events[j].payload.headers, "X-Custom-Header")
        /\ events[j].payload.headers["X-Custom-Header"] = "********"
        /\ events[j].payload.headers[HApiKey] = "api-key-1"
        /\ Has(events[j].payload.headers, HAccessToken)
        /\ events[j].payload.headers[HAccessToken] = "tok-1"
        /\ calls[events[j].call].wire[1].headers["X-Custom-Header"] = "secret-1"

====
